---- MODULE Spec2Model ----
(***************************************************************************)
(* FlexibleDatabase (src/src/flexible_database.rs): a registry of schemas  *)
(* held in memory plus one SQLite connection.  Every operation checks the  *)
(* registry, formats one SQL statement with the schema name and the field  *)
(* names interpolated into its text, and hands it to the connection.       *)
(*                                                                         *)
(* The storage side is modelled by what SQLite and rusqlite do with those  *)
(* statements: CREATE TABLE IF NOT EXISTS, column affinity, NOT NULL,      *)
(* rowid assignment for INTEGER PRIMARY KEY, and the typed reads of        *)
(* Row::get.                                                               *)
(***************************************************************************)
EXTENDS Integers, Sequences, FiniteSets, TLC

VARIABLES schemas, tables, last

vars == <<schemas, tables, last>>

(***************************************************************************)
(* Bounds and constants                                                    *)
(***************************************************************************)

\* Largest rowid a table may reach: create_model is not called when the
\* insert would assign a larger one.
MaxId == 2

\* i32::MAX, the range of row.get::<_, i32> and of `as i32`.
I32_MAX == 2147483647

(***************************************************************************)
(* rusqlite::types::Value.  An i64 does not fit a model integer, so the    *)
(* number is kept in two limbs, hi * 2^31 + lo with 0 <= lo < 2^31; a Real *)
(* is that number plus half/2.  Text carries its string in s.              *)
(***************************************************************************)
IntegerValue(hi, lo) == [tag |-> "Integer", hi |-> hi, lo |-> lo, half |-> 0, s |-> ""]

RealValue(hi, lo, half) == [tag |-> "Real", hi |-> hi, lo |-> lo, half |-> half, s |-> ""]

TextValue(str) == [tag |-> "Text", hi |-> 0, lo |-> 0, half |-> 0, s |-> str]

NullValue == [tag |-> "Null", hi |-> 0, lo |-> 0, half |-> 0, s |-> ""]

\* The integer 2^31, the smallest one above i32::MAX.
BigInteger == IntegerValue(1, 0)

(***************************************************************************)
(* Finite maps (HashMap): functions whose domain is the set of keys.       *)
(***************************************************************************)
EmptyMap == [k \in {} |-> k]

Put(m, k, v) == [x \in (DOMAIN m) \cup {k} |-> IF x = k THEN v ELSE m[x]]

Remove(m, k) == [x \in (DOMAIN m) \ {k} |-> m[x]]

\* m with every entry of n written over it
Merge(m, n) == [x \in (DOMAIN m) \cup (DOMAIN n) |-> IF x \in DOMAIN n THEN n[x] ELSE m[x]]

(***************************************************************************)
(* Inputs                                                                  *)
(***************************************************************************)
SchemaNames == {"s", "t"}

FieldTypes == {"Text", "Integer", "Real", "Boolean"}

\* The field sets define_schema is called with.
NoFields == EmptyMap

IntegerTextFields == [a |-> "Integer", b |-> "Text"]

BooleanRealFields == [a |-> "Boolean", b |-> "Real"]

IntegerOnlyFields == [a |-> "Integer"]

BadField == [x \in {"a!"} |-> "Integer"]

\* A field with the name of the identity column
IdField == [id |-> "Integer"]

\* The Schema values define_schema is called with.  The name "t" is never
\* defined.
Schemas ==
    { [name |-> "s", fields |-> f] : f \in {NoFields, IntegerTextFields, BooleanRealFields, IntegerOnlyFields,
                                           BadField, IdField} }

\* The values a caller binds to each key of a field mapping.
\* 1 and 2^32 + 1 for "id".
ValuesOf(key) ==
    CASE key = "a"  -> {IntegerValue(0, 0), IntegerValue(0, 2), BigInteger}
      [] key = "b"  -> {TextValue("x"), RealValue(0, 1, 1)}
      [] key = "id" -> {IntegerValue(0, 1), IntegerValue(2, 1)}

\* The mappings that give each key of one of the key sets one of its values
MappingsOver(key_sets) ==
    UNION { {m \in [ks -> UNION {ValuesOf(k) : k \in ks}] : \A k \in ks : m[k] \in ValuesOf(k)}
            : ks \in key_sets }

\* The field mappings create_model is called with: any of "a" and "b", or
\* "id" alone.
CreateMappings == MappingsOver((SUBSET {"a", "b"}) \cup {{"id"}})

\* The field mappings update_model is called with: any of "a" and "b".
UpdateMappings == MappingsOver(SUBSET {"a", "b"})

\* The identifiers get_model, update_model and delete_model are called with.
Ids == 1..MaxId

(***************************************************************************)
(* Rowids are i64 too, in the same two limbs.                              *)
(***************************************************************************)
Rowid(hi, lo) == [hi |-> hi, lo |-> lo]

\* An i32 identifier bound as a statement parameter (not negative here)
RowidOfId(id) == Rowid(0, id)

\* Order of rowids
RowidLeq(r, q) == r.hi < q.hi \/ (r.hi = q.hi /\ r.lo <= q.lo)

(***************************************************************************)
(* Results (rusqlite::Result<T>).  One record shape for every operation:   *)
(* id is create_model's i32, flag is the bool of update_model and          *)
(* delete_model, models is the Option<Model> of get_model (empty or one    *)
(* element) or the Vec<Model> of get_all_models.                           *)
(***************************************************************************)
ExecuteReturnedResults == "ExecuteReturnedResults"

SqliteError == "SqliteFailure(SQLITE_ERROR)"

SqliteConstraint == "SqliteFailure(SQLITE_CONSTRAINT)"

SqliteMismatch == "SqliteFailure(SQLITE_MISMATCH)"

InvalidColumnType == "InvalidColumnType"

IntegralValueOutOfRange == "IntegralValueOutOfRange"

Err(e) == [ok |-> FALSE, err |-> e, id |-> 0, flag |-> FALSE, models |-> <<>>]

OkUnit == [ok |-> TRUE, err |-> "", id |-> 0, flag |-> FALSE, models |-> <<>>]

OkId(i) == [ok |-> TRUE, err |-> "", id |-> i, flag |-> FALSE, models |-> <<>>]

OkBool(b) == [ok |-> TRUE, err |-> "", id |-> 0, flag |-> b, models |-> <<>>]

OkModels(ms) == [ok |-> TRUE, err |-> "", id |-> 0, flag |-> FALSE, models |-> ms]

Model(i, d) == [id |-> i, data |-> d]

(***************************************************************************)
(* Statements.  A statement is the text format! builds: its kind, the      *)
(* table name and the column names written into it, none of them quoted.   *)
(***************************************************************************)
Statement(kind, table, cols) == [kind |-> kind, table |-> table, cols |-> cols]

NoStatement == Statement("none", "", {})

\* Names SQLite's tokenizer reads as one bare identifier.  "a!" is not one:
\* '!' not followed by '=' is an illegal token in every statement.
IsBareIdentifier(name) == name \in {"s", "t", "a", "b", "id"}

\* FieldType -> declared column type
SqlType(field_type) ==
    CASE field_type = "Text"    -> "TEXT"
      [] field_type = "Integer" -> "INTEGER"
      [] field_type = "Real"    -> "REAL"
      [] field_type = "Boolean" -> "INTEGER"

\* What sqlite3_prepare makes of a statement: "" when it compiles, else the
\* error.  The text is parsed first (an illegal token, the empty column
\* list of INSERT INTO t () VALUES () or an empty SET list is a syntax error), then the names
\* are resolved against the database: the table, and each column among the
\* table's columns and its identity column id.  CREATE TABLE for a table that
\* does not exist refuses a second column named id; for one that exists, IF
\* NOT EXISTS skips the column list.
PrepareError(tabs, stmt) ==
    IF ~IsBareIdentifier(stmt.table) \/ \E c \in stmt.cols : ~IsBareIdentifier(c)
      THEN SqliteError
    ELSE IF stmt.kind \in {"INSERT", "UPDATE"} /\ stmt.cols = {}
      THEN SqliteError
    ELSE IF stmt.kind = "CREATE TABLE IF NOT EXISTS"
      THEN IF stmt.table \notin DOMAIN tabs /\ "id" \in stmt.cols THEN SqliteError ELSE ""
    ELSE IF stmt.table \notin DOMAIN tabs
      THEN SqliteError
    ELSE IF ~(stmt.cols \subseteq (DOMAIN tabs[stmt.table].cols) \cup {"id"})
      THEN SqliteError
    ELSE ""

\* Decimal digits of n, k of them
RECURSIVE Digits(_, _)
Digits(n, k) == IF k = 0 THEN "" ELSE Digits(n \div 10, k - 1) \o ToString(n % 10)

\* The text SQLite renders an integer as
IntegerText(hi, lo) ==
    IF hi = 0 THEN ToString(lo)
    ELSE LET low == hi * 147483648 + lo
         IN  ToString(2 * hi + low \div 1000000000) \o Digits(low % 1000000000, 9)

\* Column affinity: the value a column of declared type sql_type stores when
\* value is bound to it.  The texts of this model are not numerals, so
\* INTEGER and REAL columns keep them as text.
Affinity(sql_type, value) ==
    CASE sql_type = "TEXT" /\ value.tag = "Integer" ->
           TextValue(IntegerText(value.hi, value.lo))
      [] sql_type = "TEXT" /\ value.tag = "Real" ->
           TextValue(IntegerText(value.hi, value.lo) \o (IF value.half = 1 THEN ".5" ELSE ".0"))
      [] sql_type = "INTEGER" /\ value.tag = "Real" /\ value.half = 0 ->
           IntegerValue(value.hi, value.lo)
      [] sql_type = "REAL" /\ value.tag = "Integer" ->
           RealValue(value.hi, value.lo, 0)
      [] OTHER -> value

\* INTEGER PRIMARY KEY without AUTOINCREMENT: one more than the largest
\* rowid in the table, 1 for an empty table.
NextRowid(rows) ==
    IF DOMAIN rows = {} THEN Rowid(0, 1)
    ELSE LET largest == CHOOSE r \in DOMAIN rows : \A q \in DOMAIN rows : RowidLeq(q, r)
         IN  IF largest.lo = I32_MAX THEN Rowid(largest.hi + 1, 0)
             ELSE Rowid(largest.hi, largest.lo + 1)

\* `as i32` on a non-negative i64: the low 32 bits, read as signed.
AsI32(rowid) ==
    IF rowid.hi % 2 = 0 THEN rowid.lo ELSE (rowid.lo - I32_MAX) - 1

(***************************************************************************)
(* The operations.  Each gives the set of outcomes of one call: the        *)
(* Result returned, the registry and the database after it, and the        *)
(* statement handed to the connection (NoStatement when none was built).   *)
(* The set has more than one element only where the order in which a       *)
(* HashMap is visited decides which error is returned.                     *)
(***************************************************************************)
Outcome(res, reg, tabs, stmt) == [res |-> res, schemas |-> reg, tables |-> tabs, stmt |-> stmt]

\* The table CREATE TABLE makes: one NOT NULL column per field, no rows.
NewTable(fields) ==
    [cols |-> [f \in DOMAIN fields |-> SqlType(fields[f])], rows |-> EmptyMap]

\* What executing CREATE TABLE IF NOT EXISTS does to the database.
CreateTableIfNotExists(tabs, schema) ==
    IF schema.name \in DOMAIN tabs THEN tabs
    ELSE Put(tabs, schema.name, NewTable(schema.fields))

\* define_schema with a plain CREATE TABLE: the statement fails when the
\* table exists.
define_schema_NoIfNotExists(reg, tabs, schema) ==
    LET registered == Put(reg, schema.name, schema.fields)
        stmt == Statement("CREATE TABLE", schema.name, DOMAIN schema.fields)
    IN  IF PrepareError(tabs, [stmt EXCEPT !.kind = "CREATE TABLE IF NOT EXISTS"]) # ""
           \/ schema.name \in DOMAIN tabs
          THEN {Outcome(Err(SqliteError), registered, tabs, stmt)}
          ELSE {Outcome(OkUnit, registered, CreateTableIfNotExists(tabs, schema), stmt)}

\* define_schema that registers the schema only once the table is made.
define_schema_RegisterAfter(reg, tabs, schema) ==
    LET stmt == Statement("CREATE TABLE IF NOT EXISTS", schema.name, DOMAIN schema.fields)
        err == PrepareError(tabs, stmt)
    IN  IF err # ""
          THEN {Outcome(Err(err), reg, tabs, stmt)}
          ELSE {Outcome(OkUnit, Put(reg, schema.name, schema.fields),
                        CreateTableIfNotExists(tabs, schema), stmt)}

define_schema(reg, tabs, schema) ==
    LET registered == Put(reg, schema.name, schema.fields)
        stmt == Statement("CREATE TABLE IF NOT EXISTS", schema.name, DOMAIN schema.fields)
        err == PrepareError(tabs, stmt)
    IN  IF err # ""
          THEN {Outcome(Err(err), registered, tabs, stmt)}
          ELSE {Outcome(OkUnit, registered, CreateTableIfNotExists(tabs, schema), stmt)}

\* self.schemas.get(schema_name) found an entry
SchemaKnown(reg, schema_name) == schema_name \in DOMAIN reg

\* FieldsKnown that lets a mapping through as soon as one key is declared.
FieldsKnownAny(fields, data) ==
    DOMAIN data = {} \/ \E k \in DOMAIN data : k \in DOMAIN fields

\* Every key of data passes the contains_key check of the loop.
FieldsKnown(fields, data) == \A k \in DOMAIN data : k \in DOMAIN fields

\* The row INSERT builds: the bound values under the columns' affinity,
\* NULL for every column the statement does not name.
InsertedRow(cols, data) ==
    [c \in DOMAIN cols |-> IF c \in DOMAIN data THEN Affinity(cols[c], data[c]) ELSE NullValue]

\* What a SELECT finds in column c of the row under rowid: the identity
\* column is the rowid itself.
Stored(rowid, row, c) == IF c = "id" THEN IntegerValue(rowid.hi, rowid.lo) ELSE row[c]

\* NOT NULL holds of a row
NotNullHolds(row) == \A c \in DOMAIN row : row[c].tag # "Null"

\* PRIMARY KEY holds of a row put under rowid
RowidFree(rows, rowid) == rowid \notin DOMAIN rows

\* The INSERT statement of create_model: built, executed, and
\* last_insert_rowid() returned as i32.  The rowid is the value bound to the
\* identity column when the mapping names it, else the one SQLite assigns.
ExecuteInsert(reg, tabs, schema_name, data) ==
    LET stmt == Statement("INSERT", schema_name, DOMAIN data)
        err == PrepareError(tabs, stmt)
    IN  IF err # "" THEN {Outcome(Err(err), reg, tabs, stmt)}
        ELSE
          LET table == tabs[schema_name]
              row == InsertedRow(table.cols, data)
              rowid == IF "id" \in DOMAIN data
                         THEN Rowid(data["id"].hi, data["id"].lo)
                         ELSE NextRowid(table.rows)
          IN  IF "id" \in DOMAIN data /\ data["id"].tag # "Integer"
                THEN {Outcome(Err(SqliteMismatch), reg, tabs, stmt)}
              ELSE IF ~NotNullHolds(row) \/ ~RowidFree(table.rows, rowid)
                THEN {Outcome(Err(SqliteConstraint), reg, tabs, stmt)}
              ELSE {Outcome(OkId(AsI32(rowid)), reg,
                            [tabs EXCEPT ![schema_name].rows = Put(@, rowid, row)], stmt)}

create_model(reg, tabs, schema_name, data) ==
    IF ~SchemaKnown(reg, schema_name)
      THEN {Outcome(Err(ExecuteReturnedResults), reg, tabs, NoStatement)}
    ELSE IF ~FieldsKnown(reg[schema_name], data)
      THEN {Outcome(Err(ExecuteReturnedResults), reg, tabs, NoStatement)}
    ELSE ExecuteInsert(reg, tabs, schema_name, data)

\* row.get::<_, T>(col_index) for the T each FieldType is read as: the Value
\* put into the Model, or the error of the conversion.
ReadField(field_type, stored) ==
    CASE field_type = "Text" ->
           IF stored.tag = "Text" THEN [err |-> "", value |-> stored]
           ELSE [err |-> InvalidColumnType, value |-> NullValue]
      [] field_type = "Integer" ->
           IF stored.tag = "Integer" THEN [err |-> "", value |-> stored]
           ELSE [err |-> InvalidColumnType, value |-> NullValue]
      [] field_type = "Real" ->
           IF stored.tag = "Real" THEN [err |-> "", value |-> stored]
           ELSE IF stored.tag = "Integer"
             THEN [err |-> "", value |-> RealValue(stored.hi, stored.lo, 0)]
           ELSE [err |-> InvalidColumnType, value |-> NullValue]
      [] field_type = "Boolean" ->
           IF stored.tag # "Integer" THEN [err |-> InvalidColumnType, value |-> NullValue]
           ELSE IF stored.hi # 0 THEN [err |-> IntegralValueOutOfRange, value |-> NullValue]
           ELSE [err |-> "", value |-> IntegerValue(0, IF stored.lo = 0 THEN 0 ELSE 1)]

\* The errors the reads of one row can end in, one per field that fails;
\* which one is returned depends on the order the fields are visited in.
\* The identifier itself is read first, as i32.
RowErrors(fields, rowid, row) ==
    IF rowid.hi # 0 THEN {IntegralValueOutOfRange}
    ELSE {ReadField(fields[f], Stored(rowid, row, f)).err : f \in DOMAIN fields} \ {""}

\* The Model built from a row all of whose reads succeed.
RowModel(fields, rowid, row) ==
    Model(rowid.lo, [f \in DOMAIN fields |-> ReadField(fields[f], Stored(rowid, row, f)).value])

get_model(reg, tabs, schema_name, id) ==
    IF ~SchemaKnown(reg, schema_name)
      THEN {Outcome(Err(ExecuteReturnedResults), reg, tabs, NoStatement)}
    ELSE
      LET fields == reg[schema_name]
          stmt == Statement("SELECT", schema_name, DOMAIN fields)
          err == PrepareError(tabs, stmt)
      IN  IF err # "" THEN {Outcome(Err(err), reg, tabs, stmt)}
          ELSE IF RowidOfId(id) \notin DOMAIN tabs[schema_name].rows
            THEN {Outcome(OkModels(<<>>), reg, tabs, stmt)}
          ELSE
            LET rowid == RowidOfId(id)
                row == tabs[schema_name].rows[rowid]
            IN  IF RowErrors(fields, rowid, row) # {}
                  THEN {Outcome(Err(e), reg, tabs, stmt) : e \in RowErrors(fields, rowid, row)}
                  ELSE {Outcome(OkModels(<<RowModel(fields, rowid, row)>>), reg, tabs, stmt)}

\* The rowids of a table in the order a scan without ORDER BY visits them
RECURSIVE ScanOrder(_)
ScanOrder(rowids) ==
    IF rowids = {} THEN <<>>
    ELSE LET least == CHOOSE r \in rowids : \A q \in rowids : RowidLeq(r, q)
         IN  <<least>> \o ScanOrder(rowids \ {least})

get_all_models(reg, tabs, schema_name) ==
    IF ~SchemaKnown(reg, schema_name)
      THEN {Outcome(Err(ExecuteReturnedResults), reg, tabs, NoStatement)}
    ELSE
      LET fields == reg[schema_name]
          stmt == Statement("SELECT", schema_name, DOMAIN fields)
          err == PrepareError(tabs, stmt)
      IN  IF err # "" THEN {Outcome(Err(err), reg, tabs, stmt)}
          ELSE
            LET rows == tabs[schema_name].rows
                order == ScanOrder(DOMAIN rows)
                failing == {n \in 1..Len(order) :
                              RowErrors(fields, order[n], rows[order[n]]) # {}}
            IN  IF failing # {}
                  THEN LET first == CHOOSE n \in failing : \A m \in failing : n <= m
                       IN  {Outcome(Err(e), reg, tabs, stmt)
                              : e \in RowErrors(fields, order[first], rows[order[first]])}
                  ELSE {Outcome(OkModels([n \in 1..Len(order) |->
                                  RowModel(fields, order[n], rows[order[n]])]),
                                reg, tabs, stmt)}

\* The row UPDATE ... SET leaves: the bound values under the columns'
\* affinity in the columns it names, the old values elsewhere.
UpdatedRow(cols, row, data) ==
    [c \in DOMAIN cols |-> IF c \in DOMAIN data THEN Affinity(cols[c], data[c]) ELSE row[c]]

\* The UPDATE statement of update_model: built, executed, and whether it
\* affected a row returned.  SET id = ? gives the row another rowid.
ExecuteUpdate(reg, tabs, schema_name, id, data) ==
    LET stmt == Statement("UPDATE", schema_name, DOMAIN data)
        err == PrepareError(tabs, stmt)
    IN  IF err # "" THEN {Outcome(Err(err), reg, tabs, stmt)}
        ELSE IF RowidOfId(id) \notin DOMAIN tabs[schema_name].rows
          THEN {Outcome(OkBool(FALSE), reg, tabs, stmt)}
        ELSE
          LET table == tabs[schema_name]
              rowid == RowidOfId(id)
              row == UpdatedRow(table.cols, table.rows[rowid], data)
              moved == IF "id" \in DOMAIN data
                         THEN Rowid(data["id"].hi, data["id"].lo)
                         ELSE rowid
              others == Remove(table.rows, rowid)
          IN  IF "id" \in DOMAIN data /\ data["id"].tag # "Integer"
                THEN {Outcome(Err(SqliteMismatch), reg, tabs, stmt)}
              ELSE IF ~NotNullHolds(row) \/ ~RowidFree(others, moved)
                THEN {Outcome(Err(SqliteConstraint), reg, tabs, stmt)}
              ELSE {Outcome(OkBool(TRUE), reg,
                            [tabs EXCEPT ![schema_name].rows = Put(others, moved, row)], stmt)}

\* update_model with the empty-mapping return moved above the schema lookup.
update_model_EmptyFirst(reg, tabs, schema_name, id, data) ==
    IF DOMAIN data = {}
      THEN {Outcome(OkBool(FALSE), reg, tabs, NoStatement)}
    ELSE IF ~SchemaKnown(reg, schema_name)
      THEN {Outcome(Err(ExecuteReturnedResults), reg, tabs, NoStatement)}
    ELSE IF ~FieldsKnown(reg[schema_name], data)
      THEN {Outcome(Err(ExecuteReturnedResults), reg, tabs, NoStatement)}
    ELSE ExecuteUpdate(reg, tabs, schema_name, id, data)

\* update_model without the sets.is_empty() return.
update_model_NoEmptyCheck(reg, tabs, schema_name, id, data) ==
    IF ~SchemaKnown(reg, schema_name)
      THEN {Outcome(Err(ExecuteReturnedResults), reg, tabs, NoStatement)}
    ELSE IF ~FieldsKnown(reg[schema_name], data)
      THEN {Outcome(Err(ExecuteReturnedResults), reg, tabs, NoStatement)}
    ELSE ExecuteUpdate(reg, tabs, schema_name, id, data)

update_model(reg, tabs, schema_name, id, data) ==
    IF ~SchemaKnown(reg, schema_name)
      THEN {Outcome(Err(ExecuteReturnedResults), reg, tabs, NoStatement)}
    ELSE IF ~FieldsKnown(reg[schema_name], data)
      THEN {Outcome(Err(ExecuteReturnedResults), reg, tabs, NoStatement)}
    ELSE IF DOMAIN data = {}
      THEN {Outcome(OkBool(FALSE), reg, tabs, NoStatement)}
    ELSE ExecuteUpdate(reg, tabs, schema_name, id, data)

\* delete_model whose DELETE removes the identifier from every table.
delete_model_EveryTable(reg, tabs, schema_name, id) ==
    IF ~SchemaKnown(reg, schema_name)
      THEN {Outcome(Err(ExecuteReturnedResults), reg, tabs, NoStatement)}
    ELSE
      LET stmt == Statement("DELETE", schema_name, {})
          err == PrepareError(tabs, stmt)
      IN  IF err # "" THEN {Outcome(Err(err), reg, tabs, stmt)}
          ELSE IF RowidOfId(id) \notin DOMAIN tabs[schema_name].rows
            THEN {Outcome(OkBool(FALSE), reg, tabs, stmt)}
          ELSE {Outcome(OkBool(TRUE), reg,
                        [n \in DOMAIN tabs |->
                           [tabs[n] EXCEPT !.rows = [r \in DOMAIN @ \ {RowidOfId(id)} |-> @[r]]]],
                        stmt)}

delete_model(reg, tabs, schema_name, id) ==
    IF ~SchemaKnown(reg, schema_name)
      THEN {Outcome(Err(ExecuteReturnedResults), reg, tabs, NoStatement)}
    ELSE
      LET stmt == Statement("DELETE", schema_name, {})
          err == PrepareError(tabs, stmt)
      IN  IF err # "" THEN {Outcome(Err(err), reg, tabs, stmt)}
          ELSE IF RowidOfId(id) \notin DOMAIN tabs[schema_name].rows
            THEN {Outcome(OkBool(FALSE), reg, tabs, stmt)}
          ELSE {Outcome(OkBool(TRUE), reg,
                        [tabs EXCEPT ![schema_name].rows = Remove(@, RowidOfId(id))], stmt)}

(***************************************************************************)
(* The state machine.  schemas is FlexibleDatabase::schemas, tables the    *)
(* database behind FlexibleDatabase::conn, last the call that has just     *)
(* returned to the caller: its operation, arguments, Result and statement. *)
(* Calls are synchronous: the caller takes the result (Return) before it   *)
(* makes the next call.                                                    *)
(***************************************************************************)
Call(op, schema_name, id, data, fields, o) ==
    [op |-> op, schema_name |-> schema_name, id |-> id, data |-> data,
     fields |-> fields, res |-> o.res, stmt |-> o.stmt]

NoCall ==
    [op |-> "none", schema_name |-> "", id |-> 0, data |-> EmptyMap,
     fields |-> EmptyMap, res |-> OkUnit, stmt |-> NoStatement]

\* FlexibleDatabase::new on a fresh database
Init ==
    /\ schemas = EmptyMap
    /\ tables = EmptyMap
    /\ last = NoCall

\* No table holds a rowid whose low limb is above MaxId.
WithinBounds(tabs) == \A n \in DOMAIN tabs : \A r \in DOMAIN tabs[n].rows : r.lo <= MaxId

Returns(op, schema_name, id, data, fields, o) ==
    /\ WithinBounds(o.tables)
    /\ schemas' = o.schemas
    /\ tables' = o.tables
    /\ last' = Call(op, schema_name, id, data, fields, o)

DefineSchema(catalogue) ==
    /\ last = NoCall
    /\ \E schema \in catalogue :
         \E o \in define_schema(schemas, tables, schema) :
           Returns("define_schema", schema.name, 0, EmptyMap, schema.fields, o)

CreateModel ==
    /\ last = NoCall
    /\ \E schema_name \in SchemaNames, data \in CreateMappings :
         \E o \in create_model(schemas, tables, schema_name, data) :
           Returns("create_model", schema_name, 0, data, EmptyMap, o)

GetModel ==
    /\ last = NoCall
    /\ \E schema_name \in SchemaNames, id \in Ids :
         \E o \in get_model(schemas, tables, schema_name, id) :
           Returns("get_model", schema_name, id, EmptyMap, EmptyMap, o)

GetAllModels ==
    /\ last = NoCall
    /\ \E schema_name \in SchemaNames :
         \E o \in get_all_models(schemas, tables, schema_name) :
           Returns("get_all_models", schema_name, 0, EmptyMap, EmptyMap, o)

UpdateModel ==
    /\ last = NoCall
    /\ \E schema_name \in SchemaNames, id \in Ids, data \in UpdateMappings :
         \E o \in update_model(schemas, tables, schema_name, id, data) :
           Returns("update_model", schema_name, id, data, EmptyMap, o)

DeleteModel ==
    /\ last = NoCall
    /\ \E schema_name \in SchemaNames, id \in Ids :
         \E o \in delete_model(schemas, tables, schema_name, id) :
           Returns("delete_model", schema_name, id, EmptyMap, EmptyMap, o)

\* The caller has taken the result.
Return ==
    /\ last # NoCall
    /\ last' = NoCall
    /\ UNCHANGED <<schemas, tables>>

Next ==
    \/ DefineSchema(Schemas)
    \/ CreateModel
    \/ GetModel
    \/ GetAllModels
    \/ UpdateModel
    \/ DeleteModel
    \/ Return

Spec == Init /\ [][Next]_vars

(***************************************************************************)
(* The runs in which every call made so far returned Ok: each operation    *)
(* is taken only when its Result is Ok.                                    *)
(***************************************************************************)
Succeeds == last'.res.ok

DefineSchemaOk == DefineSchema(Schemas) /\ Succeeds

CreateModelOk == CreateModel /\ Succeeds

GetModelOk == GetModel /\ Succeeds

GetAllModelsOk == GetAllModels /\ Succeeds

UpdateModelOk == UpdateModel /\ Succeeds

DeleteModelOk == DeleteModel /\ Succeeds

NextOk ==
    \/ DefineSchemaOk
    \/ CreateModelOk
    \/ GetModelOk
    \/ GetAllModelsOk
    \/ UpdateModelOk
    \/ DeleteModelOk
    \/ Return

SpecOk == Init /\ [][NextOk]_vars

(***************************************************************************)
(* The runs with two schemas: define_schema is called with both names, and *)
(* with the field sets {} and {a: Integer} for each.                       *)
(***************************************************************************)
TwoSchemas ==
    { [name |-> n, fields |-> f] : n \in SchemaNames, f \in {NoFields, IntegerOnlyFields} }

NextTwo ==
    \/ DefineSchema(TwoSchemas)
    \/ CreateModel
    \/ GetModel
    \/ GetAllModels
    \/ UpdateModel
    \/ DeleteModel
    \/ Return

SpecTwo == Init /\ [][NextTwo]_vars

(***************************************************************************)
(* Vocabulary of the properties                                            *)
(***************************************************************************)
RecordOps == {"create_model", "get_model", "get_all_models", "update_model", "delete_model"}

\* The registry holds a schema of that name.
Defined(reg, schema_name) == schema_name \in DOMAIN reg

\* Every key of the mapping is a field the schema declares.
AllDeclared(fields, data) == DOMAIN data \subseteq DOMAIN fields

\* The records of a schema: the rows of its table, none when it has no table.
Records(tabs, schema_name) ==
    IF schema_name \in DOMAIN tabs THEN tabs[schema_name].rows ELSE EmptyMap

\* The value carries the tag of the field type (a Boolean field an integer).
TagMatches(field_type, value) ==
    value.tag = (IF field_type = "Boolean" THEN "Integer" ELSE field_type)

\* A mapping with a value for every declared field, each of the field's type.
FullAndTyped(fields, data) ==
    /\ DOMAIN data = DOMAIN fields
    /\ \A k \in DOMAIN data : TagMatches(fields[k], data[k])

\* The data a read is to return for a mapping: Boolean fields as 0 or 1.
Normalized(fields, data) ==
    [k \in DOMAIN data |->
        IF fields[k] = "Boolean"
          THEN IntegerValue(0, IF data[k].hi = 0 /\ data[k].lo = 0 THEN 0 ELSE 1)
          ELSE data[k]]

\* The outcome of a call that returns res and changes nothing
Unchanged(res, stmt) == Outcome(res, schemas, tables, stmt)

(***************************************************************************)
(* C1  Round trip.  Stated of the state a create_model has just returned   *)
(* to: when the schema was known and the mapping gave every declared field *)
(* a value of its type, the call succeeded with an identifier, and         *)
(* get_model of that identifier returns one record with that identifier    *)
(* and the mapping as data, Boolean fields read back as 0 or 1.            *)
(***************************************************************************)
C1_RoundTrip ==
    (/\ last.op = "create_model"
     /\ Defined(schemas, last.schema_name)
     /\ FullAndTyped(schemas[last.schema_name], last.data))
    => /\ last.res.ok
       /\ \A o \in get_model(schemas, tables, last.schema_name, last.res.id) :
            o.res = OkModels(<<Model(last.res.id,
                                     Normalized(schemas[last.schema_name], last.data))>>)

(***************************************************************************)
(* C2  Unknown schema.  Every record operation called with a schema name   *)
(* that is not in the registry returns the error the code uses for an      *)
(* unknown schema (ExecuteReturnedResults), builds no statement and leaves *)
(* the registry and the database as they were; update_model with an empty  *)
(* mapping included.                                                       *)
(***************************************************************************)
C2_UnknownSchema ==
    [][(last'.op \in RecordOps /\ ~Defined(schemas, last'.schema_name))
         => /\ last'.res = Err(ExecuteReturnedResults)
            /\ last'.stmt = NoStatement
            /\ schemas' = schemas
            /\ tables' = tables]_vars

\* update_model with an empty mapping has just failed on the unknown schema
\* "t" while "s" holds a record.
C2_Witness ==
    /\ last.op = "update_model"
    /\ last.data = EmptyMap
    /\ ~Defined(schemas, last.schema_name)
    /\ last.res = Err(ExecuteReturnedResults)
    /\ Records(tables, "s") # EmptyMap

(***************************************************************************)
(* C3  Field validation.  create_model or update_model on a known schema   *)
(* with a mapping holding a key the schema does not declare returns the    *)
(* error the code uses for an unknown field (ExecuteReturnedResults),      *)
(* builds no statement and changes no row, whatever the other keys are.    *)
(***************************************************************************)
C3_UnknownField ==
    [][(/\ last'.op \in {"create_model", "update_model"}
        /\ Defined(schemas, last'.schema_name)
        /\ ~AllDeclared(schemas[last'.schema_name], last'.data))
         => /\ last'.res = Err(ExecuteReturnedResults)
            /\ last'.stmt = NoStatement
            /\ schemas' = schemas
            /\ tables' = tables]_vars

\* update_model of an existing record has just been refused for a mapping
\* with one declared and one undeclared key.
C3_Witness ==
    /\ last.op = "update_model"
    /\ Defined(schemas, last.schema_name)
    /\ DOMAIN schemas[last.schema_name] = {"a"}
    /\ DOMAIN last.data = {"a", "b"}
    /\ RowidOfId(last.id) \in DOMAIN Records(tables, last.schema_name)
    /\ last.res = Err(ExecuteReturnedResults)

(***************************************************************************)
(* C4  Partial update.  update_model on a known schema with a non-empty    *)
(* mapping of declared fields returns true iff the record exists; when     *)
(* true, the record holds the given values in the named fields and its     *)
(* other fields, the other records and the other tables are as before;     *)
(* when false, the database is as before.                                  *)
(***************************************************************************)
C4_PartialUpdate ==
    [][(/\ last'.op = "update_model"
        /\ Defined(schemas, last'.schema_name)
        /\ last'.data # EmptyMap
        /\ AllDeclared(schemas[last'.schema_name], last'.data))
         => LET name == last'.schema_name
                old == Records(tables, name)
                key == RowidOfId(last'.id)
            IN  /\ last'.res = OkBool(key \in DOMAIN old)
                /\ key \notin DOMAIN old => tables' = tables
                /\ key \in DOMAIN old =>
                     tables' = [tables EXCEPT ![name].rows[key] = Merge(old[key], last'.data)]]_vars

(***************************************************************************)
(* C5  Delete.  delete_model on a known schema returns true iff the record *)
(* exists, removes that record and nothing else, and changes nothing when  *)
(* it does not return true; after it returned true, get_model of the       *)
(* identifier returns absence and a second delete_model returns false.     *)
(***************************************************************************)
C5_Delete ==
    [][(last'.op = "delete_model" /\ Defined(schemas, last'.schema_name))
         => LET name == last'.schema_name
                old == Records(tables, name)
                key == RowidOfId(last'.id)
            IN  /\ (last'.res = OkBool(TRUE)) <=> (key \in DOMAIN old)
                /\ last'.res # OkBool(TRUE) => tables' = tables
                /\ last'.res = OkBool(TRUE) =>
                     /\ tables' = [tables EXCEPT ![name].rows = Remove(@, key)]
                     /\ \A o \in get_model(schemas', tables', name, last'.id) :
                          o.res = OkModels(<<>>)
                     /\ \A o \in delete_model(schemas', tables', name, last'.id) :
                          o.res = OkBool(FALSE)]_vars

(***************************************************************************)
(* C6  Identifier uniqueness.  The identifier a successful create_model    *)
(* returns is the identifier of no record the schema held before the call; *)
(* after the call it is the identifier of the inserted row, and the        *)
(* records held before are all still there, unchanged.                     *)
(***************************************************************************)
C6_FreshIdentifier ==
    [][(last'.op = "create_model" /\ last'.res.ok)
         => LET name == last'.schema_name
                old == Records(tables, name)
                new == Records(tables', name)
                key == RowidOfId(last'.res.id)
            IN  /\ key \notin DOMAIN old
                /\ DOMAIN new = DOMAIN old \cup {key}
                /\ \A r \in DOMAIN old : new[r] = old[r]]_vars

(***************************************************************************)
(* C7  Omitted fields.  create_model on a known schema with a mapping of   *)
(* declared fields that leaves a declared field out fails with the         *)
(* constraint error of the storage layer and changes no row.               *)
(***************************************************************************)
C7_OmittedField ==
    [][(/\ last'.op = "create_model"
        /\ Defined(schemas, last'.schema_name)
        /\ AllDeclared(schemas[last'.schema_name], last'.data)
        /\ DOMAIN last'.data # DOMAIN schemas[last'.schema_name])
         => /\ last'.res = Err(SqliteConstraint)
            /\ tables' = tables]_vars

(***************************************************************************)
(* C8  Idempotent definition, as the claim has it: a define_schema that    *)
(* has just returned succeeded, and the same call made again succeeds and  *)
(* leaves the registry and the database as they are.                       *)
(***************************************************************************)
C8_DefineTwiceSucceeds ==
    last.op = "define_schema"
    => /\ last.res.ok
       /\ define_schema(schemas, tables, [name |-> last.schema_name, fields |-> last.fields])
            = {Unchanged(OkUnit, last.stmt)}

(***************************************************************************)
(* C8  amended: the same define_schema call made again returns what the    *)
(* first call returned (success after a success) and leaves the registry,  *)
(* the table, its columns and its rows as the first call left them.        *)
(***************************************************************************)
C8_DefineTwiceSame ==
    last.op = "define_schema"
    => define_schema(schemas, tables, [name |-> last.schema_name, fields |-> last.fields])
         = {Unchanged(last.res, last.stmt)}

\* define_schema has just succeeded on a name whose table holds a record.
C8_Witness ==
    /\ last.op = "define_schema"
    /\ last.res.ok
    /\ Records(tables, last.schema_name) # EmptyMap

(***************************************************************************)
(* C9  Empty update.  update_model on a known schema with the empty        *)
(* mapping returns false, builds no statement and changes nothing, whether *)
(* or not the record exists.                                               *)
(***************************************************************************)
C9_EmptyUpdate ==
    [][(/\ last'.op = "update_model"
        /\ Defined(schemas, last'.schema_name)
        /\ last'.data = EmptyMap)
         => /\ last'.res = OkBool(FALSE)
            /\ last'.stmt = NoStatement
            /\ schemas' = schemas
            /\ tables' = tables]_vars

\* update_model with the empty mapping has just returned false for a record
\* that exists.
C9_Witness ==
    /\ last.op = "update_model"
    /\ Defined(schemas, last.schema_name)
    /\ last.data = EmptyMap
    /\ RowidOfId(last.id) \in DOMAIN Records(tables, last.schema_name)
    /\ last.res = OkBool(FALSE)

(***************************************************************************)
(* C10  Type-tag matching.  create_model or update_model on a known schema *)
(* that binds to a declared field a value of another tag than the field's  *)
(* type returns an error and changes no row.                               *)
(***************************************************************************)
C10_TagMismatchRejected ==
    [][(/\ last'.op \in {"create_model", "update_model"}
        /\ Defined(schemas, last'.schema_name)
        /\ AllDeclared(schemas[last'.schema_name], last'.data)
        /\ \E k \in DOMAIN last'.data :
             ~TagMatches(schemas[last'.schema_name][k], last'.data[k]))
         => /\ ~last'.res.ok
            /\ tables' = tables]_vars

(***************************************************************************)
(* C11  getAll completeness.  In every state reached by calls that all     *)
(* returned Ok, get_all_models on a defined schema returns Ok with exactly *)
(* one Model per row of the schema's table and no other, each with the     *)
(* row's identifier and, for every declared field, the value the row holds *)
(* (a Boolean field as 0 or 1), and changes nothing.                       *)
(***************************************************************************)
C11_GetAllComplete ==
    \A name \in DOMAIN schemas :
      \A o \in get_all_models(schemas, tables, name) :
        LET rows == Records(tables, name)
            models == o.res.models
        IN  /\ o.res.ok
            /\ o.schemas = schemas
            /\ o.tables = tables
            /\ Len(models) = Cardinality(DOMAIN rows)
            /\ \A r \in DOMAIN rows :
                 \E n \in 1..Len(models) :
                   /\ r = RowidOfId(models[n].id)
                   /\ DOMAIN rows[r] = DOMAIN schemas[name]
                   /\ models[n].data = Normalized(schemas[name], rows[r])

(***************************************************************************)
(* C12  Schema shape is immutable once records exist.  No step changes or  *)
(* removes the field set the registry holds for a name whose table holds a *)
(* record, a define_schema that reuses the name included.                  *)
(***************************************************************************)
C12_ShapeImmutable ==
    [][\A name \in DOMAIN schemas :
         Records(tables, name) # EmptyMap
           => /\ Defined(schemas', name)
              /\ schemas'[name] = schemas[name]]_vars

(***************************************************************************)
(* C13  Registry and storage agree after a successful define.  When        *)
(* define_schema has returned Ok, the table of that name has, beside the   *)
(* identity column, exactly one column per field now registered under the  *)
(* name, of the column type of the field's FieldType, also when the table  *)
(* existed before the call.                                                *)
(***************************************************************************)
C13_RegistryMatchesStorage ==
    [][(last'.op = "define_schema" /\ last'.res.ok)
         => LET name == last'.schema_name
            IN  /\ Defined(schemas', name)
                /\ schemas'[name] = last'.fields
                /\ name \in DOMAIN tables'
                /\ tables'[name].cols = [f \in DOMAIN schemas'[name] |-> SqlType(schemas'[name][f])]]_vars

\* The row has the columns of the field set and holds in each a value of the
\* field's type, under an identifier that fits i32.
WellStored(fields, rowid, row) ==
    /\ rowid.hi = 0
    /\ DOMAIN row = DOMAIN fields
    /\ \A f \in DOMAIN fields : TagMatches(fields[f], row[f])

\* The Model's data gives every Boolean field as 0 when the row holds 0 and
\* as 1 when it holds another integer.
BooleansNormalized(fields, row, data) ==
    \A f \in DOMAIN fields :
      fields[f] = "Boolean"
        => /\ f \in DOMAIN data
           /\ data[f] = IntegerValue(0, IF row[f] = IntegerValue(0, 0) THEN 0 ELSE 1)

(***************************************************************************)
(* C14  Boolean normalization on read.  For rows that hold an integer in   *)
(* every Boolean field (and values of the declared types elsewhere),       *)
(* get_model and get_all_models succeed and give each Boolean field as 0   *)
(* when the stored integer is 0 and as 1 when it is any other integer.     *)
(***************************************************************************)
C14_BooleanNormalized ==
    \A name \in DOMAIN schemas :
      LET fields == schemas[name]
          rows == Records(tables, name)
      IN  /\ \A r \in DOMAIN rows :
               WellStored(fields, r, rows[r])
                 => \A o \in get_model(schemas, tables, name, r.lo) :
                      /\ o.res.ok
                      /\ Len(o.res.models) = 1
                      /\ BooleansNormalized(fields, rows[r], o.res.models[1].data)
          /\ (rows # EmptyMap /\ \A r \in DOMAIN rows : WellStored(fields, r, rows[r]))
               => \A o \in get_all_models(schemas, tables, name) :
                    /\ o.res.ok
                    /\ \A n \in 1..Len(o.res.models) :
                         BooleansNormalized(fields, rows[RowidOfId(o.res.models[n].id)],
                                            o.res.models[n].data)

(***************************************************************************)
(* C15  Error kinds are distinguishable.  In every state the error a       *)
(* record operation returns for an undefined schema name differs from the  *)
(* error create_model and update_model return for an undeclared field of a *)
(* defined schema, and a call that failed at the storage layer (defined    *)
(* schema, declared fields) returned neither of them.                      *)
(***************************************************************************)
C15_ErrorKindsDistinct ==
    /\ \A unknown \in SchemaNames \ DOMAIN schemas, known \in DOMAIN schemas, data \in UpdateMappings :
         ~AllDeclared(schemas[known], data)
           => \A id \in Ids :
                \A u \in create_model(schemas, tables, unknown, data)
                          \cup get_model(schemas, tables, unknown, id)
                          \cup get_all_models(schemas, tables, unknown)
                          \cup update_model(schemas, tables, unknown, id, data)
                          \cup delete_model(schemas, tables, unknown, id) :
                  \A f \in create_model(schemas, tables, known, data)
                            \cup update_model(schemas, tables, known, id, data) :
                    /\ ~u.res.ok
                    /\ ~f.res.ok
                    /\ u.res.err # f.res.err
    /\ (/\ last.op \in RecordOps
        /\ ~last.res.ok
        /\ Defined(schemas, last.schema_name)
        /\ AllDeclared(schemas[last.schema_name], last.data))
         => \A unknown \in SchemaNames \ DOMAIN schemas :
              \A u \in get_all_models(schemas, tables, unknown) : last.res.err # u.res.err

\* The safe identifier grammar: non-empty, letters, digits and underscore.
\* Of the names calls are made with, "a!" alone is outside it.
SafeIdentifier(name) == name \in {"s", "t", "a", "b", "id"}

(***************************************************************************)
(* C16  Identifier safety.  Statements carry their names unquoted, so      *)
(* every statement handed to the connection names only a table and columns *)
(* within the safe identifier grammar, and a define_schema whose schema    *)
(* name or a field name is outside the grammar returns an error, registers *)
(* nothing and builds no statement.                                        *)
(***************************************************************************)
C16_IdentifierSafety ==
    [][/\ last'.stmt # NoStatement
          => /\ SafeIdentifier(last'.stmt.table)
             /\ \A c \in last'.stmt.cols : SafeIdentifier(c)
       /\ (/\ last'.op = "define_schema"
           /\ (~SafeIdentifier(last'.schema_name)
                  \/ \E f \in DOMAIN last'.fields : ~SafeIdentifier(f)))
          => /\ ~last'.res.ok
             /\ last'.stmt = NoStatement
             /\ schemas' = schemas
             /\ tables' = tables]_vars

(***************************************************************************)
(* C17  define_schema registers before it provisions and does not roll     *)
(* back.  When define_schema has returned an error, the registry maps the  *)
(* name to the field set of the call, whatever it held for the name        *)
(* before, and is otherwise as before; the database is as before; and the  *)
(* record operations on that name pass the schema check: get_model,        *)
(* get_all_models and delete_model, and create_model and update_model with *)
(* mappings of declared fields, do not return the unknown-schema error.    *)
(***************************************************************************)
C17_RegisteredAfterFailedDefine ==
    [][(last'.op = "define_schema" /\ ~last'.res.ok)
         => LET name == last'.schema_name
            IN  /\ DOMAIN schemas' = DOMAIN schemas \cup {name}
                /\ schemas'[name] = last'.fields
                /\ \A other \in DOMAIN schemas \ {name} : schemas'[other] = schemas[other]
                /\ tables' = tables
                /\ \A id \in Ids :
                     \A o \in get_model(schemas', tables', name, id)
                               \cup get_all_models(schemas', tables', name)
                               \cup delete_model(schemas', tables', name, id) :
                       o.res # Err(ExecuteReturnedResults)
                /\ \A id \in Ids, data \in CreateMappings :
                     AllDeclared(schemas'[name], data)
                       => \A o \in create_model(schemas', tables', name, data)
                                    \cup update_model(schemas', tables', name, id, data) :
                            o.res # Err(ExecuteReturnedResults)]_vars

\* define_schema has just failed on a name that already had a table with a
\* record, and the registry holds the field set of the failed call.
C17_Witness ==
    /\ last.op = "define_schema"
    /\ ~last.res.ok
    /\ Records(tables, last.schema_name) # EmptyMap
    /\ Defined(schemas, last.schema_name)
    /\ schemas[last.schema_name] = last.fields
    /\ DOMAIN last.fields # DOMAIN tables[last.schema_name].cols

(***************************************************************************)
(* C18  create on a schema without fields.  create_model with the empty    *)
(* mapping on a defined schema that declares no fields returns Ok with an  *)
(* identifier, adds exactly one record, under that identifier, and         *)
(* get_model of the identifier returns a record with empty data.           *)
(***************************************************************************)
C18_CreateWithoutFields ==
    [][(/\ last'.op = "create_model"
        /\ Defined(schemas, last'.schema_name)
        /\ schemas[last'.schema_name] = EmptyMap
        /\ last'.data = EmptyMap)
         => LET name == last'.schema_name
                old == Records(tables, name)
                new == Records(tables', name)
                key == RowidOfId(last'.res.id)
            IN  /\ last'.res.ok
                /\ key \notin DOMAIN old
                /\ DOMAIN new = DOMAIN old \cup {key}
                /\ \A o \in get_model(schemas', tables', name, last'.res.id) :
                     o.res = OkModels(<<Model(last'.res.id, EmptyMap)>>)]_vars

\* The largest rowid of a non-empty set of rows
LargestRowid(rows) == CHOOSE r \in DOMAIN rows : \A q \in DOMAIN rows : RowidLeq(q, r)

(***************************************************************************)
(* C19  Identifier assignment.  A create_model that returns Ok returns 1   *)
(* when the schema held no record before the call and otherwise one more   *)
(* than the largest identifier among the records it held; so after the     *)
(* record with the largest identifier is deleted the next create_model     *)
(* returns that identifier again.                                          *)
(***************************************************************************)
C19_NextIdentifier ==
    [][(last'.op = "create_model" /\ last'.res.ok)
         => LET old == Records(tables, last'.schema_name)
            IN  IF old = EmptyMap
                  THEN last'.res.id = 1
                  ELSE /\ LargestRowid(old).hi = 0
                       /\ last'.res.id = LargestRowid(old).lo + 1]_vars

(***************************************************************************)
(* C20  Frame of the record operations.  create_model, get_model,          *)
(* get_all_models, update_model and delete_model leave the registry as it  *)
(* was; get_model and get_all_models leave the database as it was,         *)
(* whatever they return; and the others leave every table but the one of   *)
(* the schema they were called with as it was.                             *)
(***************************************************************************)
C20_Frame ==
    [][last'.op \in RecordOps
         => /\ schemas' = schemas
            /\ last'.op \in {"get_model", "get_all_models"} => tables' = tables
            /\ DOMAIN tables' = DOMAIN tables
            /\ \A other \in DOMAIN tables \ {last'.schema_name} :
                 tables'[other] = tables[other]]_vars

\* delete_model has just removed a record of one schema while the other
\* schema holds a record with the same identifier.
C20_Witness ==
    /\ last.op = "delete_model"
    /\ last.res = OkBool(TRUE)
    /\ \E other \in DOMAIN tables \ {last.schema_name} :
         RowidOfId(last.id) \in DOMAIN Records(tables, other)

====
